---------------------------- MODULE Spec2Model ----------------------------
(***************************************************************************)
(* A model of JsonParser.h (namespace Json): the tagged Value tree kept on *)
(* a heap of nodes, the recursive-descent reader over a NUL-terminated     *)
(* character buffer, the writer, and the typed accessors.                  *)
(*                                                                         *)
(* Characters are one-character strings.  A buffer is the sequence of the  *)
(* caller's characters, followed by the NUL terminator, followed by        *)
(* whatever bytes happen to lie behind the terminator in memory (tail).    *)
(* Reading behind the mapped bytes yields OOB: the process faults.         *)
(***************************************************************************)
EXTENDS Integers, Sequences, FiniteSets

\* ------------------------------------------------------------ characters

NUL == "NUL"      \* the terminator '\0'
OOB == "OOB"      \* a read of unmapped memory

Digits == {"0", "1", "2", "3", "4", "5", "6", "7", "8", "9"}

Alpha == {"a", "b", "c", "d", "e", "f", "g", "h", "i", "j", "k", "l", "m",
          "n", "o", "p", "q", "r", "s", "t", "u", "v", "w", "x", "y", "z"}

Space == {" ", "\t", "\n", "\r", "\f"}

isdigit(c) == c \in Digits

isalpha(c) == c \in Alpha

isalnum(c) == c \in Alpha \cup Digits

isspace(c) == c \in Space

\* The characters of the model in ascending order of their byte value: the
\* order std::string's operator< compares by.
AsciiOrder == <<"\t", "\n", "\f", "\r", " ", "\"", ",", "-", ".", "/",
                "0", "1", "2", "3", "4", "5", "6", "7", "8", "9", ":",
                "[", "\\", "]", "_",
                "a", "b", "c", "d", "e", "f", "g", "h", "i", "j", "k", "l", "m",
                "n", "o", "p", "q", "r", "s", "t", "u", "v", "w", "x", "y", "z",
                "{", "}">>

Code(c) == IF c = NUL THEN 0
           ELSE CHOOSE i \in 1..Len(AsciiOrder) : AsciiOrder[i] = c

\* ------------------------------------------------------------ the heap

NULL == 0

T_NUMBER == "T_NUMBER"
T_STRING == "T_STRING"
T_BOOLEAN == "T_BOOLEAN"
T_ARRAY == "T_ARRAY"
T_OBJECT == "T_OBJECT"

Type == {T_NUMBER, T_STRING, T_BOOLEAN, T_ARRAY, T_OBJECT}

\* new Number(d), new Boolean(b), new String(chars), new Array(result),
\* new Object(result): the node is appended to the heap, its address is the
\* new length.
Number(d) == [type |-> T_NUMBER, v |-> d]

Boolean(b) == [type |-> T_BOOLEAN, v |-> b]

String(chars) == [type |-> T_STRING, v |-> chars]

Array(vec) == [type |-> T_ARRAY, v |-> vec]

Object(map) == [type |-> T_OBJECT, v |-> map]

\* The parser's working state: the cursor s, the highest buffer index read
\* so far (hi), the number of diagnostics written to stderr, and the heap.
New(st, node) == [st EXCEPT !.heap = Append(@, node)]

\* result[field_name] = field_value on a std::map
MapPut(map, key, val) ==
  [k \in (DOMAIN map) \cup {key} |-> IF k = key THEN val ELSE map[k]]

EmptyMap == [k \in {} |-> NULL]

\* ------------------------------------------------------------ lexical layer

Peek(m, p) == IF p <= Len(m) THEN m[p] ELSE OOB

Touch(st, p) == IF p > st.hi THEN [st EXCEPT !.hi = p] ELSE st

\* fprintf(stderr, "... Got: %s\n", s): one diagnostic; %s reads from s up
\* to the next NUL.
RECURSIVE scanNul(_, _)
scanNul(m, p) == IF Peek(m, p) \in {NUL, OOB} THEN p ELSE scanNul(m, p + 1)

Diag(m, st) == [Touch(st, scanNul(m, st.s)) EXCEPT !.diag = @ + 1]

\* while (*s != '\n') ++s;
RECURSIVE scanComment(_, _)
scanComment(m, p) ==
  IF Peek(m, p) \in {"\n", OOB} THEN p ELSE scanComment(m, p + 1)

chompComment(m, st) ==
  IF Peek(m, st.s) = "/"
  THEN IF Peek(m, st.s + 1) = "/"
       THEN LET e == scanComment(m, st.s + 2)
            IN  [ret |-> TRUE, st |-> Touch([st EXCEPT !.s = e], e)]
       ELSE [ret |-> FALSE, st |-> Touch(st, st.s + 1)]
  ELSE [ret |-> FALSE, st |-> Touch(st, st.s)]

\* while (isspace(*s)) ++s;
RECURSIVE scanSpace(_, _)
scanSpace(m, p) == IF isspace(Peek(m, p)) THEN scanSpace(m, p + 1) ELSE p

chompSpace(m, st) ==
  IF isspace(Peek(m, st.s))
  THEN LET e == scanSpace(m, st.s)
       IN  [ret |-> TRUE, st |-> Touch([st EXCEPT !.s = e], e)]
  ELSE [ret |-> FALSE, st |-> Touch(st, st.s)]

\* while (chompSpace(s) || chompComment(s)) ;
RECURSIVE chomp(_, _)

\* A skip that stops behind the first comment: what follows the comment,
\* white space or a second comment, is left for the caller.
chomp_comment_once(m, b) == b.st

\* b: what chompComment returned
chomp_comment(m, b) == IF b.ret THEN chomp(m, b.st) ELSE b.st

\* a: what chompSpace returned
chomp_space(m, a) ==
  IF a.ret THEN chomp(m, a.st) ELSE chomp_comment(m, chompComment(m, a.st))

chomp(m, st) == chomp_space(m, chompSpace(m, st))

\* The do ... while (*s != 0) loop of parseCharString.  prev and s are the
\* two pointers; result is the text gathered so far.
RECURSIVE charLoop(_, _, _, _)
charLoop(m, prev, s, result) ==
  IF Peek(m, prev) # "\\" /\ Peek(m, s) = "\""
  THEN [s |-> s + 1, hi |-> s, str |-> result]
  ELSE IF Peek(m, s + 1) \in {NUL, OOB}
  THEN [s |-> s + 1, hi |-> s + 1, str |-> Append(result, Peek(m, s))]
  ELSE charLoop(m, s, s + 1, Append(result, Peek(m, s)))

\* l: where the loop left the cursor, and the text it gathered
parseCharString_end(st1, l) ==
  [st |-> Touch([st1 EXCEPT !.s = l.s], l.hi), str |-> l.str]

\* st1: the state after chomp(s)
parseCharString_open(m, st1) ==
  IF Peek(m, st1.s) # "\""
  THEN [st |-> Diag(m, st1), str |-> <<>>]
  ELSE parseCharString_end(st1, charLoop(m, st1.s, st1.s + 1, <<>>))

parseCharString(m, st0) == parseCharString_open(m, chomp(m, st0))

\* ------------------------------------------------------------ numbers

\* A double is kept as its sign, its integer digits without leading zeros
\* and its fraction digits without trailing zeros: exact for the short
\* decimal tokens of the model.
RECURSIVE StripLead(_)
StripLead(ds) ==
  IF ds # <<>> /\ Head(ds) = "0" THEN StripLead(Tail(ds)) ELSE ds

RECURSIVE StripTrail(_)
StripTrail(ds) ==
  IF ds # <<>> /\ ds[Len(ds)] = "0"
  THEN StripTrail(SubSeq(ds, 1, Len(ds) - 1)) ELSE ds

RECURSIVE digitsEnd(_, _)
digitsEnd(tok, i) ==
  IF i <= Len(tok) /\ isdigit(tok[i]) THEN digitsEnd(tok, i + 1) ELSE i

RECURSIVE spaceEnd(_, _)
spaceEnd(tok, i) ==
  IF i <= Len(tok) /\ isspace(tok[i]) THEN spaceEnd(tok, i + 1) ELSE i

Zero == [neg |-> FALSE, ip |-> <<>>, fp |-> <<>>]

\* atof: leading white space, an optional sign, digits, an optional point
\* and digits; the longest such prefix converts and the rest is ignored; a
\* prefix with no digit at all converts to 0.0.
atof(tok) ==
  LET b   == spaceEnd(tok, 1)
      neg == b <= Len(tok) /\ tok[b] = "-"
      i0  == IF neg THEN b + 1 ELSE b
      i1  == digitsEnd(tok, i0)
      dot == i1 <= Len(tok) /\ tok[i1] = "."
      i2  == IF dot THEN digitsEnd(tok, i1 + 1) ELSE i1
      ip  == SubSeq(tok, i0, i1 - 1)
      fp  == IF dot THEN SubSeq(tok, i1 + 1, i2 - 1) ELSE <<>>
  IN  IF ip = <<>> /\ fp = <<>> THEN Zero
      ELSE [neg |-> neg, ip |-> StripLead(ip), fp |-> StripTrail(fp)]

\* ------------------------------------------------------------ structural layer

\* Every parse function returns the state it leaves and the Value* it
\* returns (val).  A function's steps are written as operators of their
\* own, each taking what the step before it produced.

RECURSIVE parseGeneric(_, _)

\* return new X(...)
Return(st, node) == [st |-> New(st, node), val |-> Len(st.heap) + 1]

\* fprintf(stderr, ...); return NULL;
Fail(m, st) == [st |-> Diag(m, st), val |-> NULL]

\* do { tok_end = s+1; s++; } while (isdigit(*s) || *s == '-' || *s == '.');
RECURSIVE numberEnd(_, _)
numberEnd(m, p) ==
  IF isdigit(Peek(m, p)) \/ Peek(m, p) = "-" \/ Peek(m, p) = "."
  THEN numberEnd(m, p + 1) ELSE p

\* do { tok_end = s+1; s++; } while (isalnum(*s) || *s == '_');
RECURSIVE wordEnd(_, _)
wordEnd(m, p) ==
  IF isalnum(Peek(m, p)) \/ Peek(m, p) = "_" THEN wordEnd(m, p + 1) ELSE p

\* tok: the characters from tok_start to tok_end
parseLiteral_number(st2, tok) == Return(st2, Number(atof(tok)))

\* A literal scan that knows the word true only.
parseLiteral_word_onlyTrue(m, st2, tok) ==
  IF tok = <<"t", "r", "u", "e">> THEN Return(st2, Boolean(TRUE))
  ELSE Fail(m, st2)

parseLiteral_word(m, st2, tok) ==
  IF tok = <<"t", "r", "u", "e">> THEN Return(st2, Boolean(TRUE))
  ELSE IF tok = <<"f", "a", "l", "s", "e">> THEN Return(st2, Boolean(FALSE))
  ELSE Fail(m, st2)

\* e: where the token's scan stopped (tok_end)
parseLiteral_numberEnd(m, tok_start, st1, e) ==
  parseLiteral_number(Touch([st1 EXCEPT !.s = e], e), SubSeq(m, tok_start, e - 1))

parseLiteral_wordEnd(m, tok_start, st1, e) ==
  parseLiteral_word(m, Touch([st1 EXCEPT !.s = e], e), SubSeq(m, tok_start, e - 1))

\* st1: the state after chomp(s)
parseLiteral_tok(m, tok_start, st1) ==
  IF isdigit(Peek(m, st1.s)) \/ Peek(m, st1.s) = "-"
  THEN parseLiteral_numberEnd(m, tok_start, st1, numberEnd(m, st1.s + 1))
  ELSE IF isalpha(Peek(m, st1.s))
  THEN parseLiteral_wordEnd(m, tok_start, st1, wordEnd(m, st1.s + 1))
  ELSE Fail(m, st1)

\* tok_start is taken before chomp(s)
parseLiteral(m, st0) == parseLiteral_tok(m, st0.s, chomp(m, st0))

\* cs: what parseCharString returned
parseString_new(cs) == Return(cs.st, String(cs.str))

parseString(m, st0) == parseString_new(parseCharString(m, st0))

\* parseMap, after its loop: chomp(s); if (*s != '}') ...; s++;
\* return new Object(result);
parseMap_close(m, st, result) ==
  IF Peek(m, st.s) # "}" THEN Fail(m, st)
  ELSE Return([st EXCEPT !.s = @ + 1], Object(result))

\* The while(1) loop of parseMap; result is the map built so far.
RECURSIVE mapLoop(_, _, _)

\* after the value: chomp(s); ',' goes on, '}' goes on (and ends the loop
\* at its top), anything else fails
mapLoop_sep(m, st3, result) ==
  IF Peek(m, st3.s) = "," THEN mapLoop(m, [st3 EXCEPT !.s = @ + 1], result)
  ELSE IF Peek(m, st3.s) # "}" THEN Fail(m, st3)
  ELSE mapLoop(m, st3, result)

\* fv: what parseGeneric returned; result[field_name] = field_value
mapLoop_value(m, fv, field_name, result) ==
  mapLoop_sep(m, chomp(m, fv.st), MapPut(result, field_name, fv.val))

mapLoop_colon(m, st2, field_name, result) ==
  IF Peek(m, st2.s) # ":" THEN Fail(m, st2)
  ELSE mapLoop_value(m, parseGeneric(m, [st2 EXCEPT !.s = @ + 1]), field_name, result)

\* fn: what parseCharString returned
mapLoop_name(m, fn, result) == mapLoop_colon(m, chomp(m, fn.st), fn.str, result)

\* st1: the state after the loop's first chomp(s)
mapLoop_top(m, st1, result) ==
  IF Peek(m, st1.s) = "}" THEN parseMap_close(m, chomp(m, st1), result)
  ELSE mapLoop_name(m, parseCharString(m, st1), result)

mapLoop(m, st0, result) == mapLoop_top(m, chomp(m, st0), result)

parseMap_open(m, st1) ==
  IF Peek(m, st1.s) # "{" THEN Fail(m, st1)
  ELSE mapLoop(m, [st1 EXCEPT !.s = @ + 1], EmptyMap)

parseMap(m, st0) == parseMap_open(m, chomp(m, st0))

\* parseList, after its loop: chomp(s); if (*s != ']') ...; s++;
\* return new Array(result);
parseList_close(m, st, result) ==
  IF Peek(m, st.s) # "]" THEN Fail(m, st)
  ELSE Return([st EXCEPT !.s = @ + 1], Array(result))

\* The while(1) loop of parseList; result is the vector built so far.
RECURSIVE listLoop(_, _, _)

listLoop_sep(m, st2, result) ==
  IF Peek(m, st2.s) = "," THEN listLoop(m, [st2 EXCEPT !.s = @ + 1], result)
  ELSE IF Peek(m, st2.s) # "]" THEN Fail(m, st2)
  ELSE listLoop(m, st2, result)

\* value: what parseGeneric returned; result.push_back(value)
listLoop_value(m, value, result) ==
  listLoop_sep(m, chomp(m, value.st), Append(result, value.val))

listLoop_top(m, st1, result) ==
  IF Peek(m, st1.s) = "]" THEN parseList_close(m, chomp(m, st1), result)
  ELSE listLoop_value(m, parseGeneric(m, st1), result)

listLoop(m, st0, result) == listLoop_top(m, chomp(m, st0), result)

parseList_open(m, st1) ==
  IF Peek(m, st1.s) # "[" THEN Fail(m, st1)
  ELSE listLoop(m, [st1 EXCEPT !.s = @ + 1], <<>>)

parseList(m, st0) == parseList_open(m, chomp(m, st0))

parseGeneric_dispatch(m, st1) ==
  IF Peek(m, st1.s) = "{" THEN parseMap(m, st1)
  ELSE IF Peek(m, st1.s) = "[" THEN parseList(m, st1)
  ELSE IF Peek(m, st1.s) = "\"" THEN parseString(m, st1)
  ELSE parseLiteral(m, st1)

parseGeneric(m, st0) == parseGeneric_dispatch(m, chomp(m, st0))

\* Value* read(const char* s): the cursor starts at the first character.
read(m, heap0) == parseGeneric(m, [s |-> 1, hi |-> 0, diag |-> 0, heap |-> heap0])

\* ------------------------------------------------------------ writer

\* out << num->value(): the default float format, six significant digits.
\* For a value of at most six significant digits and magnitude in
\* [1e-4, 1e6) that is the plain decimal without trailing zeros.
Printable(d) ==
  /\ Len(d.ip) + Len(d.fp) <= 6
  /\ d.ip = <<>> /\ d.fp # <<>> => \E i \in 1..4 : i <= Len(d.fp) /\ d.fp[i] # "0"

formatNumber(d) ==
  (IF d.neg THEN <<"-">> ELSE <<>>)
    \o (IF d.ip = <<>> THEN <<"0">> ELSE d.ip)
    \o (IF d.fp = <<>> THEN <<>> ELSE <<".">> \o d.fp)

RECURSIVE escape(_)
escape(str) ==
  IF str = <<>> THEN <<>>
  ELSE (IF Head(str) = "\\" \/ Head(str) = "\"" THEN <<"\\">> ELSE <<>>)
         \o <<Head(str)>> \o escape(Tail(str))

formatString(str) == <<"\"">> \o escape(str) \o <<"\"">>

\* out << bo->value() ? "true" : "false";  << binds tighter than ?: so the
\* bool itself is inserted into the stream (as 1 or 0) and the conditional's
\* value is discarded.
formatBoolean(b) == IF b THEN <<"1">> ELSE <<"0">>

\* std::string's operator<
RECURSIVE StrLess(_, _)
StrLess(a, b) ==
  IF b = <<>> THEN FALSE
  ELSE IF a = <<>> THEN TRUE
  ELSE IF Head(a) = Head(b) THEN StrLess(Tail(a), Tail(b))
  ELSE Code(Head(a)) < Code(Head(b))

\* Object::keys(): a std::set<std::string>, iterated in ascending order.
RECURSIVE keys(_)
keys(ks) ==
  IF ks = {} THEN <<>>
  ELSE LET k == CHOOSE x \in ks : \A y \in ks \ {x} : StrLess(x, y)
       IN  <<k>> \o keys(ks \ {k})

RECURSIVE formatGeneric(_, _)

RECURSIVE formatArray(_, _, _)
formatArray(heap, vec, ii) ==
  IF ii > Len(vec) THEN <<>>
  ELSE (IF ii > 1 THEN <<",", " ">> ELSE <<>>)
         \o formatGeneric(heap, vec[ii]) \o formatArray(heap, vec, ii + 1)

RECURSIVE formatObject(_, _, _, _)
formatObject(heap, map, ks, ii) ==
  IF ii > Len(ks) THEN <<>>
  ELSE (IF ii > 1 THEN <<",", " ">> ELSE <<>>)
         \o formatString(ks[ii]) \o <<" ", ":", " ">>
         \o formatGeneric(heap, map[ks[ii]])
         \o formatObject(heap, map, ks, ii + 1)

formatGeneric(heap, obj) ==
  IF obj = NULL THEN <<"n", "u", "l", "l">>
  ELSE LET n == heap[obj]
       IN  CASE n.type = T_NUMBER  -> formatNumber(n.v)
             [] n.type = T_STRING  -> formatString(n.v)
             [] n.type = T_BOOLEAN -> formatBoolean(n.v)
             [] n.type = T_ARRAY   ->
                  <<"[">> \o formatArray(heap, n.v, 1) \o <<"]">>
             [] n.type = T_OBJECT  ->
                  <<"{">> \o formatObject(heap, n.v, keys(DOMAIN n.v), 1) \o <<"}">>

write(heap, value) == formatGeneric(heap, value)

\* ------------------------------------------------------------ ownership

\* The nodes ~Array and ~Object destroy, starting from p (delete NULL does
\* nothing).
RECURSIVE Owned(_, _)
Owned(heap, p) ==
  IF p = NULL THEN {}
  ELSE LET n == heap[p]
       IN  {p} \cup
           (CASE n.type = T_ARRAY ->
                   UNION {Owned(heap, n.v[i]) : i \in DOMAIN n.v}
              [] n.type = T_OBJECT ->
                   UNION {Owned(heap, n.v[k]) : k \in DOMAIN n.v}
              [] OTHER -> {})

\* ------------------------------------------------------------ inputs

MaxJunkLen == 3

JunkChars == {"[", "]", "{", "}", ",", "\"", "\\", "/", "\n", "1", "a"}

\* Every character sequence of at most n characters.
RECURSIVE Strings(_)
Strings(n) ==
  IF n = 0 THEN {<<>>}
  ELSE {<<>>} \cup {Append(t, c) : t \in Strings(n - 1), c \in JunkChars}

Junk == Strings(MaxJunkLen)

\* Scalar texts: the two Boolean literals, a number, a plain string, a
\* string holding an escaped quote, and a bareword that is no literal.
Atoms == {<<"t", "r", "u", "e">>, <<"f", "a", "l", "s", "e">>, <<"1">>,
          <<"\"", "a", "\"">>, <<"\"", "\\", "\"", "\"">>, <<"x">>}

Nested == {<<"[", "]">>, <<"{", "}">>, <<"[", "-", "1", ".", "5", "]">>,
           <<"{", "\"", "a", "\"", ":", "t", "r", "u", "e", "}">>}

Elements == Atoms \cup Nested

Keys == {<<"\"", "a", "\"">>, <<"\"", "b", "\"">>}

MaxWidth == 2

Trail == {<<>>, <<",">>}

RECURSIVE JoinElems(_, _)
JoinElems(es, i) ==
  IF i > Len(es) THEN <<>>
  ELSE (IF i > 1 THEN <<",">> ELSE <<>>) \o es[i] \o JoinElems(es, i + 1)

RECURSIVE JoinPairs(_, _, _)
JoinPairs(ks, es, i) ==
  IF i > Len(es) THEN <<>>
  ELSE (IF i > 1 THEN <<",">> ELSE <<>>) \o ks[i] \o <<":">> \o es[i]
         \o JoinPairs(ks, es, i + 1)

\* Arrays of at most MaxWidth elements and objects of at most MaxWidth
\* fields, with and without a comma before the closing bracket.
ArrayDocs ==
  {<<"[">> \o JoinElems(es, 1) \o t \o <<"]">> :
     es \in UNION {[1..k -> Elements] : k \in 0..MaxWidth}, t \in Trail}

ObjectDocs ==
  UNION {{<<"{">> \o JoinPairs(ks, es, 1) \o t \o <<"}">> :
            ks \in [1..k -> Keys], es \in [1..k -> Atoms], t \in Trail} :
         k \in 0..MaxWidth}

Docs == Elements \cup ArrayDocs \cup ObjectDocs

\* The places of a text where a token starts: a bracket, a comma, a colon,
\* a quoted string, or a run of literal characters (any other character
\* counts as a token of its own).  White space and // comments are skipped.
RECURSIVE closingQuote(_, _)
closingQuote(t, q) ==
  IF q > Len(t) THEN q
  ELSE IF t[q] = "\"" /\ t[q - 1] # "\\" THEN q
  ELSE closingQuote(t, q + 1)

RECURSIVE literalEnd(_, _)
literalEnd(t, q) ==
  IF q <= Len(t) /\ (isalnum(t[q]) \/ t[q] \in {"-", ".", "_"})
  THEN literalEnd(t, q + 1) ELSE q

RECURSIVE lineEnd(_, _)
lineEnd(t, q) == IF q > Len(t) \/ t[q] = "\n" THEN q ELSE lineEnd(t, q + 1)

RECURSIVE TokenStarts(_, _)
TokenStarts(t, p) ==
  IF p > Len(t) THEN {}
  ELSE IF isspace(t[p]) THEN TokenStarts(t, p + 1)
  ELSE IF t[p] = "/" /\ p < Len(t) /\ t[p + 1] = "/"
  THEN TokenStarts(t, lineEnd(t, p + 2) + 1)
  ELSE IF t[p] = "\"" THEN {p} \cup TokenStarts(t, closingQuote(t, p + 1) + 1)
  ELSE IF isalnum(t[p]) \/ t[p] \in {"-", ".", "_"}
  THEN {p} \cup TokenStarts(t, literalEnd(t, p + 1))
  ELSE {p} \cup TokenStarts(t, p + 1)

\* Runs of white space and comments.
Trivia == {<<" ">>, <<"/", "/", "\n">>, <<"\n", "/", "/", "a", " ", "\n", "\t">>}

\* t with white space or a comment put in front of one of its tokens.
Variants(t) ==
  {SubSeq(t, 1, p - 1) \o tv \o SubSeq(t, p, Len(t)) :
     p \in TokenStarts(t, 1), tv \in Trivia}

MaxTail == 1

TailChars == {NUL, "\n", "\""}

\* What may lie in memory behind the terminator: at most MaxTail mapped
\* bytes, and unmapped memory behind them.
Tails == UNION {[1..k -> TailChars] : k \in 0..MaxTail}

MissingKey == <<"m", "i", "s", "s", "i", "n", "g">>

\* ------------------------------------------------------------ state

VARIABLES
  text,    \* the caller's text (without its terminator)
  pc,      \* what the caller did last
  heap,    \* every node ever allocated, by address
  live,    \* the addresses allocated and not yet destroyed
  root,    \* the Value* read(text) returned
  scan,    \* the last call of read: its text, its final cursor, the highest
           \* index it read, its diagnostics, the index of the terminator,
           \* the pointer it returned, whether it faulted
  fault,   \* the process died (unmapped memory was read, or a null
           \* pointer dereferenced)
  text2,   \* a second text: write(root), or text with trivia added
  how,     \* how text2 came about
  root2,   \* the Value* read(text2) returned
  out,     \* the out parameter of the typed read and of the accessors
  ret,     \* their return value
  req      \* what the last typed call asked for

vars == <<text, pc, heap, live, root, scan, fault, text2, how, root2, out, ret, req>>

NoScan == [t |-> <<>>, s |-> 0, hi |-> 0, diag |-> 0, nul |-> 0,
           val |-> NULL, fault |-> FALSE]

NoReq == [op |-> "none"]

Init ==
  /\ \/ text \in Junk
     \/ text \in Docs
  /\ pc = "start"
  /\ heap = <<>>
  /\ live = {}
  /\ root = NULL
  /\ scan = NoScan
  /\ fault = FALSE
  /\ text2 = <<>>
  /\ how = "none"
  /\ root2 = NULL
  /\ out = NULL
  /\ ret = FALSE
  /\ req = NoReq

\* The index of the terminator of buffer m.
RECURSIVE nulAt(_, _)
nulAt(m, p) == IF m[p] = NUL THEN p ELSE nulAt(m, p + 1)

\* r: what read returned on buffer m, which holds the text t.  A read of
\* unmapped memory is a fault.
Parse_result(t, m, r) ==
  [heap |-> r.st.heap,
   scan |-> [t |-> t, s |-> r.st.s, hi |-> r.st.hi, diag |-> r.st.diag,
             nul |-> nulAt(m, 1), val |-> r.val, fault |-> r.st.hi > Len(m)]]

Parse_buffer(t, m) == Parse_result(t, m, read(m, heap))

\* One call of Json::read on the text t, with tl behind its terminator.
Parse(t, tl) == Parse_buffer(t, t \o <<NUL>> \o tl)

\* r0: the call with nothing mapped behind the terminator.  A call that
\* reads nothing behind the terminator does the same whatever lies there.
Parse_tails(t, r0) ==
  IF r0.scan.hi <= Len(t) + 1 THEN {r0} ELSE {Parse(t, tl) : tl \in Tails}

\* The outcomes of Json::read(t), over what may lie behind the terminator.
ParseOutcomes(t) == Parse_tails(t, Parse(t, <<>>))

\* Value* parsed = Json::read(text)
Read ==
  /\ pc = "start"
  /\ \E r \in ParseOutcomes(text) :
       /\ scan' = r.scan
       /\ IF r.scan.fault
          THEN /\ fault' = TRUE
               /\ pc' = "fault"
               /\ UNCHANGED <<heap, live, root>>
          ELSE /\ root' = r.scan.val
               /\ heap' = r.heap
               /\ live' = live \cup ((Len(heap) + 1)..Len(r.heap))
               /\ pc' = "parsed"
               /\ UNCHANGED fault
  /\ UNCHANGED <<text, text2, how, root2, out, ret, req>>

\* bool ok = Json::read<_T>(text, out), with _T::TYPE = K
ReadTyped ==
  /\ pc = "start"
  /\ \E r \in ParseOutcomes(text), K \in Type :
       /\ scan' = r.scan
       /\ req' = [op |-> "read", kind |-> K]
       /\ IF r.scan.fault
          THEN /\ fault' = TRUE
               /\ pc' = "fault"
               /\ UNCHANGED <<heap, live, out, ret>>
          ELSE /\ heap' = r.heap
               /\ live' = live \cup ((Len(heap) + 1)..Len(r.heap))
               /\ pc' = "typed"
               /\ UNCHANGED fault
               /\ IF r.scan.val # NULL /\ r.heap[r.scan.val].type = K
                  THEN out' = r.scan.val /\ ret' = TRUE
                  ELSE out' = out /\ ret' = FALSE
  /\ UNCHANGED <<text, root, text2, how, root2>>

\* std::string text2 = Json::write(root)
Write ==
  /\ pc = "parsed"
  /\ \A a \in Owned(heap, root) :
       heap[a].type = T_NUMBER => Printable(heap[a].v)
  /\ text2' = write(heap, root)
  /\ how' = "write"
  /\ pc' = "written"
  /\ UNCHANGED <<text, heap, live, root, scan, fault, root2, out, ret, req>>

\* Value* parsed2 = Json::read(text2.c_str())
ReadBack ==
  /\ pc = "written"
  /\ \E r \in ParseOutcomes(text2) :
       /\ scan' = r.scan
       /\ IF r.scan.fault
          THEN /\ fault' = TRUE
               /\ pc' = "fault"
               /\ UNCHANGED <<heap, live, root2>>
          ELSE /\ root2' = r.scan.val
               /\ heap' = r.heap
               /\ live' = live \cup ((Len(heap) + 1)..Len(r.heap))
               /\ pc' = "reread"
               /\ UNCHANGED fault
  /\ UNCHANGED <<text, root, text2, how, out, ret, req>>

\* Value* parsed2 = Json::read(t2), for t2 the text with white space or a
\* comment added in front of a token.
ReadVariant ==
  /\ pc = "parsed"
  /\ \E t2 \in Variants(text) :
       \E r \in ParseOutcomes(t2) :
         /\ text2' = t2
         /\ how' = "trivia"
         /\ scan' = r.scan
         /\ IF r.scan.fault
            THEN /\ fault' = TRUE
                 /\ pc' = "fault"
                 /\ UNCHANGED <<heap, live, root2>>
            ELSE /\ root2' = r.scan.val
                 /\ heap' = r.heap
                 /\ live' = live \cup ((Len(heap) + 1)..Len(r.heap))
                 /\ pc' = "reread"
                 /\ UNCHANGED fault
  /\ UNCHANGED <<text, root, out, ret, req>>

\* bool ok = arr->get(idx, out), with _T::TYPE = K and idx < arr->size().
\* e->getType() is called unchecked: on a null element the behaviour is
\* undefined (a fault, or either answer).
ArrayGet ==
  /\ pc = "parsed"
  /\ \E arr \in Owned(heap, root) :
       /\ heap[arr].type = T_ARRAY
       /\ \E idx \in DOMAIN heap[arr].v, K \in Type :
            \E e \in {heap[arr].v[idx]} :
              /\ req' = [op |-> "Array::get", obj |-> arr, idx |-> idx,
                         kind |-> K, elem |-> e, nullDeref |-> e = NULL]
              /\ IF e = NULL
                 THEN \E ub \in {"fault", "true", "false"} :
                        /\ fault' = (ub = "fault")
                        /\ pc' = IF ub = "fault" THEN "fault" ELSE "got"
                        /\ ret' = (ub = "true")
                        /\ out' = out
                 ELSE /\ pc' = "got"
                      /\ UNCHANGED fault
                      /\ IF heap[e].type = K
                         THEN out' = e /\ ret' = TRUE
                         ELSE out' = out /\ ret' = FALSE
  /\ UNCHANGED <<text, heap, live, root, scan, text2, how, root2>>

\* Value* Object::get(key)
Object_get(map, key) == IF key \in DOMAIN map THEN map[key] ELSE NULL

\* bool ok = obj->get(key, out), with _T::TYPE = K
ObjectGet ==
  /\ pc = "parsed"
  /\ \E obj \in Owned(heap, root) :
       /\ heap[obj].type = T_OBJECT
       /\ \E key \in (DOMAIN heap[obj].v) \cup {MissingKey}, K \in Type :
            \E e \in {Object_get(heap[obj].v, key)} :
              /\ req' = [op |-> "Object::get", obj |-> obj, key |-> key,
                         kind |-> K, elem |-> e, nullDeref |-> FALSE]
              /\ pc' = "got"
              /\ IF e # NULL /\ heap[e].type = K
                 THEN out' = e /\ ret' = TRUE
                 ELSE out' = out /\ ret' = FALSE
  /\ UNCHANGED <<text, heap, live, root, scan, fault, text2, how, root2>>

\* delete root; (or delete out; after a typed read that succeeded)
Delete ==
  /\ \/ pc = "parsed" /\ live' = live \ Owned(heap, root)
     \/ pc = "typed" /\ ret /\ live' = live \ Owned(heap, out)
  /\ pc' = "deleted"
  /\ UNCHANGED <<text, heap, root, scan, fault, text2, how, root2, out, ret, req>>

Next ==
  \/ Read
  \/ ReadTyped
  \/ Write
  \/ ReadBack
  \/ ReadVariant
  \/ ArrayGet
  \/ ObjectGet
  \/ Delete

Spec == Init /\ [][Next]_vars

\* ------------------------------------------------------------ the grammar

\* The grammar of the format, as a recogniser of its own: each operator
\* takes a text and a position and gives the position behind what it
\* recognised, or 0.
\*   value  := object | array | string | literal
\*   object := '{' (pair (',' pair)*)? '}'      pair := string ':' value
\*   array  := '[' (value (',' value)*)? ']'
\*   string := '"' (any-char-except-unescaped-quote)* '"'
\*   literal := number | 'true' | 'false'
\*   number := ('-' | digit) (digit | '-' | '.')*
\*   comment := '//' any-char-except-newline* newline
\* A quote is escaped when a backslash stands before it.

At(t, p) == IF p >= 1 /\ p <= Len(t) THEN t[p] ELSE "END"

RECURSIVE gTrivia(_, _)
gTrivia(t, p) ==
  IF p = 0 THEN 0
  ELSE IF isspace(At(t, p)) THEN gTrivia(t, p + 1)
  ELSE IF At(t, p) = "/" /\ At(t, p + 1) = "/"
  THEN LET e == lineEnd(t, p + 2)
       IN  IF e > Len(t) THEN 0 ELSE gTrivia(t, e + 1)
  ELSE p

RECURSIVE gNumber(_, _)
gNumber(t, p) ==
  IF isdigit(At(t, p)) \/ At(t, p) \in {"-", "."} THEN gNumber(t, p + 1) ELSE p

gString(t, p) ==
  IF At(t, p) # "\"" THEN 0
  ELSE LET q == closingQuote(t, p + 1)
       IN  IF q > Len(t) THEN 0 ELSE q + 1

gLiteral(t, p) ==
  IF isdigit(At(t, p)) \/ At(t, p) = "-" THEN gNumber(t, p + 1)
  ELSE IF p >= 1 /\ p + 3 <= Len(t) /\ SubSeq(t, p, p + 3) = <<"t", "r", "u", "e">>
  THEN p + 4
  ELSE IF p >= 1 /\ p + 4 <= Len(t) /\ SubSeq(t, p, p + 4) = <<"f", "a", "l", "s", "e">>
  THEN p + 5
  ELSE 0

RECURSIVE gValue(_, _)

\* the values of an array, from the first: value (',' value)* ']'
RECURSIVE gElems(_, _)
gElems(t, p) ==
  LET v == gTrivia(t, gValue(t, p))
  IN  IF v = 0 THEN 0
      ELSE IF At(t, v) = "," THEN gElems(t, v + 1)
      ELSE IF At(t, v) = "]" THEN v + 1
      ELSE 0

\* the pairs of an object, from the first: pair (',' pair)* '}'
RECURSIVE gPairs(_, _)
gPairs(t, p) ==
  LET k == gTrivia(t, gString(t, gTrivia(t, p)))
  IN  IF k = 0 \/ At(t, k) # ":" THEN 0
      ELSE LET v == gTrivia(t, gValue(t, k + 1))
           IN  IF v = 0 THEN 0
               ELSE IF At(t, v) = "," THEN gPairs(t, v + 1)
               ELSE IF At(t, v) = "}" THEN v + 1
               ELSE 0

gValue(t, p0) ==
  LET p == gTrivia(t, p0)
  IN  IF p = 0 THEN 0
      ELSE IF At(t, p) = "[" 
      THEN LET q == gTrivia(t, p + 1)
           IN  IF q = 0 THEN 0
               ELSE IF At(t, q) = "]" THEN q + 1 ELSE gElems(t, q)
      ELSE IF At(t, p) = "{"
      THEN LET q == gTrivia(t, p + 1)
           IN  IF q = 0 THEN 0
               ELSE IF At(t, q) = "}" THEN q + 1 ELSE gPairs(t, q)
      ELSE IF At(t, p) = "\"" THEN gString(t, p)
      ELSE gLiteral(t, p)

\* t is one value of the grammar, white space and comments around it, and
\* nothing else; it holds no terminator.
WellFormed(t) ==
  /\ \A i \in 1..Len(t) : t[i] # NUL
  /\ gTrivia(t, gValue(t, 1)) = Len(t) + 1

\* The kind of the top-level production of a well-formed text.
TopKind(t) ==
  LET c == At(t, gTrivia(t, 1))
  IN  CASE c = "{" -> T_OBJECT
        [] c = "[" -> T_ARRAY
        [] c = "\"" -> T_STRING
        [] c \in {"t", "f"} -> T_BOOLEAN
        [] OTHER -> T_NUMBER

\* ------------------------------------------------------------ trees

\* The trees at a and b are equal in kind, structure and values; objects
\* are compared as maps from key to value.
RECURSIVE SameTree(_, _, _)
SameTree(h, a, b) ==
  IF a = NULL \/ b = NULL THEN a = b
  ELSE /\ h[a].type = h[b].type
       /\ CASE h[a].type = T_ARRAY ->
                 /\ Len(h[a].v) = Len(h[b].v)
                 /\ \A i \in DOMAIN h[a].v : SameTree(h, h[a].v[i], h[b].v[i])
            [] h[a].type = T_OBJECT ->
                 /\ DOMAIN h[a].v = DOMAIN h[b].v
                 /\ \A k \in DOMAIN h[a].v : SameTree(h, h[a].v[k], h[b].v[k])
            [] OTHER -> h[a].v = h[b].v

\* No array element and no object field of the tree at a is absent.
NoAbsentChild(h, a) ==
  \A n \in Owned(h, a) :
    /\ h[n].type = T_ARRAY => \A i \in DOMAIN h[n].v : h[n].v[i] # NULL
    /\ h[n].type = T_OBJECT => \A k \in DOMAIN h[n].v : h[n].v[k] # NULL

\* Every number of the tree at a is a small integer.
SmallIntegers(h, a) ==
  \A n \in Owned(h, a) :
    h[n].type = T_NUMBER => h[n].v.fp = <<>> /\ Len(h[n].v.ip) <= 3

\* A call of read has returned (it did not fault).
Returned == scan.s # 0 /\ ~scan.fault

BooleanText(b) ==
  IF b THEN <<"t", "r", "u", "e">> ELSE <<"f", "a", "l", "s", "e">>

\* The token start behind p, or 0.
NextToken(t, p) ==
  LET later == {q \in TokenStarts(t, 1) : q > p}
  IN  IF later = {} THEN 0 ELSE CHOOSE q \in later : \A r \in later : q <= r

\* t without its p-th character
Without(t, p) == SubSeq(t, 1, p - 1) \o SubSeq(t, p + 1, Len(t))

\* t is an array or object text but for one comma in front of a closing
\* bracket.
TrailingComma(t) ==
  \E p \in TokenStarts(t, 1) :
    /\ t[p] = ","
    /\ NextToken(t, p) # 0
    /\ t[NextToken(t, p)] \in {"]", "}"}
    /\ WellFormed(Without(t, p))

\* t holds a string token that is never closed.
UnterminatedString(t) ==
  \E p \in TokenStarts(t, 1) : t[p] = "\"" /\ closingQuote(t, p + 1) > Len(t)

\* ------------------------------------------------------------ properties

\* C1: round trip.  For a tree t that read returned (its numbers small
\* integers), read(write(t)) returns a tree, and that tree equals t in kind,
\* structure and values at every node, objects compared as maps.
C1_RoundTrip ==
  /\ (how = "write" /\ root # NULL /\ SmallIntegers(heap, root)) => ~fault
  /\ (pc = "reread" /\ how = "write" /\ root # NULL /\ SmallIntegers(heap, root))
       => (root2 # NULL /\ SameTree(heap, root, root2))

\* C2: write of a Boolean node gives exactly the text true or false, at top
\* level, as the one element of an array and as the one field of an object.
C2_BooleanText ==
  pc = "written" /\ root # NULL =>
    /\ heap[root].type = T_BOOLEAN => text2 = BooleanText(heap[root].v)
    /\ (/\ heap[root].type = T_ARRAY
        /\ Len(heap[root].v) = 1
        /\ heap[root].v[1] # NULL
        /\ heap[heap[root].v[1]].type = T_BOOLEAN)
         => text2 = <<"[">> \o BooleanText(heap[heap[root].v[1]].v) \o <<"]">>
    /\ heap[root].type = T_OBJECT =>
         \A k \in DOMAIN heap[root].v :
           (/\ DOMAIN heap[root].v = {k}
            /\ heap[root].v[k] # NULL
            /\ heap[heap[root].v[k]].type = T_BOOLEAN)
             => text2 = <<"{">> \o formatString(k) \o <<" ", ":", " ">>
                          \o BooleanText(heap[heap[root].v[k]].v) \o <<"}">>

\* C3: a comma in front of the closing bracket of an object or array is a
\* parse failure: read returns absent.
C3_TrailingCommaFails ==
  Returned /\ TrailingComma(scan.t) => scan.val = NULL

\* C4: no tree that read returns holds an absent node as an array element
\* or an object field: a nested failure makes the whole read return absent.
C4_NoAbsentChild ==
  Returned /\ scan.val # NULL => NoAbsentChild(heap, scan.val)

\* C5: a string that is never closed is a parse failure: read returns
\* absent, not a String node.
C5_UnterminatedStringFails ==
  Returned /\ UnterminatedString(scan.t) => scan.val = NULL

\* C6: every well-formed text is accepted: read returns a tree of the kind
\* of the top-level production, writes no diagnostic, and no element or
\* field of the tree is absent.
C6_WellFormedAccepted ==
  scan.s # 0 /\ WellFormed(scan.t) =>
    /\ ~scan.fault
    /\ scan.val # NULL
    /\ heap[scan.val].type = TopKind(scan.t)
    /\ scan.diag = 0
    /\ NoAbsentChild(heap, scan.val)

\* C6 witness: a well-formed text with a comment in it was read into an
\* array of two elements, the first an object.
C6_Witness ==
  /\ Returned
  /\ WellFormed(scan.t)
  /\ \E i \in 1..Len(scan.t) : scan.t[i] = "/"
  /\ scan.val # NULL
  /\ heap[scan.val].type = T_ARRAY
  /\ Len(heap[scan.val].v) = 2
  /\ heap[scan.val].v[1] # NULL
  /\ heap[heap[scan.val].v[1]].type = T_OBJECT

\* C7: the typed accessors are checked downcasts.  get returns true and
\* sets out to the element exactly when the element is there and of the
\* kind asked for; otherwise it returns false and leaves out alone; no
\* absent node is dereferenced and nothing faults.
C7_CheckedDowncast ==
  req.op \in {"Array::get", "Object::get"} =>
    /\ ~req.nullDeref
    /\ ~fault
    /\ ret <=> (req.elem # NULL /\ heap[req.elem].type = req.kind)
    /\ ret => out = req.elem
    /\ ~ret => out = NULL

\* C8: white space and comments are insignificant.  For a well-formed text,
\* the text with white space or a comment added in front of a token reads
\* to a tree equal to the one the text reads to.
C8_TriviaInsignificant ==
  how = "trivia" /\ WellFormed(text) =>
    /\ ~fault
    /\ root # NULL
    /\ SameTree(heap, root, root2)

\* C8 witness: a comment was added to a well-formed object text of two
\* fields, and both texts were read.
C8_Witness ==
  /\ pc = "reread"
  /\ how = "trivia"
  /\ WellFormed(text)
  /\ \E i \in 1..Len(text2) : text2[i] = "/"
  /\ root # NULL
  /\ heap[root].type = T_OBJECT
  /\ Cardinality(DOMAIN heap[root].v) = 2
  /\ root2 # NULL

\* C9: every scan is bounded by the input.  The cursor never passes the
\* terminator, nothing behind the terminator is read, and read returns.
C9_ScanBounded ==
  scan.s # 0 =>
    /\ scan.s <= scan.nul
    /\ scan.hi <= scan.nul
    /\ ~scan.fault

\* C10: no node is leaked.  When read or the typed read has returned, every
\* node it allocated is reachable from what it returned (root, or out).
C10_NoLeak ==
  /\ pc = "parsed" => live = Owned(heap, root)
  /\ pc = "typed" => live = (IF ret THEN Owned(heap, out) ELSE {})

=============================================================================
